---- MODULE Spec2Model ----
(***************************************************************************)
(* Model of src/lambda_function.py: the incremental Notion -> Sheets sync. *)
(*                                                                         *)
(* The store is the spreadsheet (row 1 of the data sheet, its data rows    *)
(* from row 2 on, and the checkpoint cell config!B2); the source is the    *)
(* Notion database.  A run of lambda_handler is a sequence of steps, one   *)
(* per call to the outside world (a Sheets read or write, a Notion query   *)
(* request), each followed by the local computation up to the next call.   *)
(*                                                                         *)
(* Texts (cell values, ISO timestamps) are records [kind, loc, off]:       *)
(*   kind "empty"  the empty string                                        *)
(*   kind "bad"    a non-empty text that datetime.fromisoformat rejects    *)
(*   kind "iso"    an ISO-8601 timestamp, local wall time loc (in ticks)   *)
(*                 with UTC offset off (in seconds; "Z" is offset 0)       *)
(*   kind "none"   no value (None / key absent from the payload)           *)
(* Instants (aware datetimes) are integers: ticks since an arbitrary       *)
(* epoch, TicksPerSec of them in a second.                                 *)
(***************************************************************************)
EXTENDS Integers, Sequences, FiniteSets, TLC

\* ---------------------------------------------------------------- bounds
NumIds == 3          \* page ids are 1..NumIds
MaxNow == 5          \* the wall clock runs over 0..MaxNow seconds
MaxPage == 2         \* records the source returns in one response (stands for page_size)
NumProps == 1        \* distinct property contents of a page
NumLive == 2         \* ids the changing database uses
MaxBatch == 3        \* length of rows_data drawn for batch_upsert_rows alone
MaxInitRows == 3     \* data rows of a sheet drawn as initial store
MaxEdits == 2        \* changes made to the database while the runs go on
MaxOffset == 2       \* UTC offsets of drawn checkpoint texts, in seconds either way

\* ------------------------------------------------------ program constants
SYNC_LOOKBACK_SECONDS == 5
HttpErrorFloor == 400
TicksPerSec == 2

Ids == 1..NumIds
Procs == {"r1", "r2"}

\* ------------------------------------------------------------------ texts
Empty == [kind |-> "empty", loc |-> 0, off |-> 0]
NoText == [kind |-> "none", loc |-> 0, off |-> 0]
Bad(k) == [kind |-> "bad", loc |-> k, off |-> 0]
Iso(l, o) == [kind |-> "iso", loc |-> l, off |-> o]
NoneDt == -1000      \* max_last_edited = None

\* datetime.fromisoformat accepts the text (after strip and Z -> +00:00)
Parses(s) == s.kind = "iso"

\* parse_iso_datetime: the instant in UTC; defined where Parses holds
parse_iso_datetime(s) == s.loc - s.off * TicksPerSec

\* to_notion_iso: UTC, microseconds dropped, "Z" designator
to_notion_iso(dt) == Iso((dt \div TicksPerSec) * TicksPerSec, 0)

\* AfterIso mutated: the look-back taken from the wall time as written, the
\* UTC offset of the text ignored
AfterIso_naive(last_sync_iso) ==
  IF Parses(last_sync_iso)
  THEN to_notion_iso(last_sync_iso.loc - SYNC_LOOKBACK_SECONDS * TicksPerSec)
  ELSE last_sync_iso

\* the "after" value of fetch_pages_from_notion_db for a non-empty checkpoint
AfterIso(last_sync_iso) ==
  IF Parses(last_sync_iso)
  THEN to_notion_iso(parse_iso_datetime(last_sync_iso)
                       - SYNC_LOOKBACK_SECONDS * TicksPerSec)
  ELSE last_sync_iso

\* the request body before the first request: `last_sync_iso or None` is falsy
\* for the empty string, and then no filter key is set
BuildPayload(last_sync_iso) ==
  [filter |-> IF last_sync_iso = Empty THEN NoText ELSE AfterIso(last_sync_iso),
   start_cursor |-> 0]

\* ----------------------------------------------------------------- pages
\* A page of the database as the query returns it: its id, its
\* last_edited_time text and its properties.  NoPage: the id is not in use.
NoPage == [id |-> 0, edited |-> Empty, props |-> 0]
Page(i, e, v) == [id |-> i, edited |-> e, props |-> v]

\* a data row of the sheet; NoRow is a row with no value in column A
NoRow == [id |-> 0, edited |-> Empty, props |-> 0]

Min(a, b) == IF a < b THEN a ELSE b
Max(a, b) == IF a > b THEN a ELSE b
SetMax(S) == CHOOSE m \in S : \A x \in S : x <= m
SetMin(S) == CHOOSE m \in S : \A x \in S : m <= x

RECURSIVE SortedSeq(_)
SortedSeq(S) == IF S = {} THEN <<>> ELSE <<SetMin(S)>> \o SortedSeq(S \ {SetMin(S)})

VARIABLES
  now,      \* the wall clock, in seconds
  source,   \* the database: [Ids -> page or NoPage]
  header,   \* row 1 of the data sheet: "blank", "space", "header" or "other"
  rows,     \* the data rows: rows[k] is sheet row k + 1
  cfg,      \* the text of config!B2
  run,      \* [Procs -> the locals of that invocation of lambda_handler]
  hist      \* history kept for the properties (never read by the program)

vars == <<now, source, header, rows, cfg, run, hist>>

\* ------------------------------------------------- the source's responses
\* The database's side of POST /databases/{id}/query: the pages the filter
\* selects, in id order, after the cursor, at most MaxPage of them.  A page
\* whose last_edited_time does not parse, or a filter value that is no
\* timestamp, selects the page.
Selects(filter, page) ==
  \/ filter.kind # "iso"
  \/ ~Parses(page.edited)
  \/ parse_iso_datetime(page.edited) > parse_iso_datetime(filter)

Candidates(payload) ==
  SortedSeq({i \in Ids : /\ source[i] # NoPage
                         /\ Selects(payload.filter, source[i])
                         /\ i > payload.start_cursor})

Response(payload) ==
  LET cand == Candidates(payload)
      k == Min(MaxPage, Len(cand))
  IN [results |-> [j \in 1..k |-> source[cand[j]]],
      has_more |-> Len(cand) > k,
      next_cursor |-> IF Len(cand) > k THEN cand[k] ELSE 0]

\* ------------------------------------------------------- the run's locals
IdleRun ==
  [pc |-> "idle", last_sync_iso |-> NoText, payload |-> BuildPayload(Empty),
   all_results |-> <<>>, pages |-> <<>>, rows_data |-> <<>>,
   max_last_edited |-> NoneDt, id_to_row |-> [i \in Ids |-> 0],
   updates |-> <<>>, appended |-> 0, updated |-> 0, delta_pages |-> 0,
   new_last_sync |-> NoText, error |-> 0, stage |-> "none"]

Set(p, r) == run' = [run EXCEPT ![p] = r]

Store == [header |-> header, rows |-> rows, cfg |-> cfg]

Active(p) == run[p].pc \notin {"idle", "done", "failed"}

\* the exception leaves lambda_handler: its locals are gone, the caller sees
\* the error (the stage that raised, and the status code a RuntimeError carries)
Fail(p, stage, code) == [IdleRun EXCEPT !.pc = "failed", !.stage = stage, !.error = code,
                                        !.last_sync_iso = run[p].last_sync_iso]

\* --------------------------------------------------- the store's writes
\* rows[k] is sheet row k + 1; a write below the last row extends the sheet
WriteRow(st, r, values) ==
  IF r = 1
  THEN [st EXCEPT !.header = "other"]
  ELSE LET k == r - 1
           padded == IF k > Len(st.rows)
                     THEN st.rows \o [j \in 1..(k - Len(st.rows)) |-> NoRow]
                     ELSE st.rows
       IN [st EXCEPT !.rows = [padded EXCEPT ![k] = values]]

\* values.batchUpdate applies the ranges of "data" in the order given
RECURSIVE ApplyUpdates(_, _)
ApplyUpdates(st, ups) ==
  IF ups = <<>> THEN st
  ELSE ApplyUpdates(WriteRow(st, Head(ups).row, Head(ups).values), Tail(ups))

\* ------------------------------------------------------------ the steps
\* read_last_sync_time: the trimmed cell, "" when the cell is blank
ReadCell == cfg

\* lambda_handler, step 0, and the head of fetch_pages_from_notion_db: read
\* the checkpoint and build the request body.  A run starts when the
\* invocation before it has returned or raised.
StartWith(p, text) ==
  /\ ~Active(p)
  /\ Set(p, [IdleRun EXCEPT !.pc = "fetch", !.last_sync_iso = text,
                            !.payload = BuildPayload(text)])
  /\ hist' = [hist EXCEPT
                !.start[p] = Store,
                !.fresh[p] = {},
                !.status[p] = 0,
                !.requests[p] = 0,
                !.streak = IF run[p].pc = "done" /\ hist.streak >= 1 THEN 2 ELSE 1]
  /\ UNCHANGED <<now, source, header, rows, cfg>>

ReadLastSync(p) == StartWith(p, ReadCell)

\* read_last_sync_time's except branch: any failure of the read is a first run
ReadLastSyncFails(p) == StartWith(p, Empty)

\* QueryPage mutated: the page's results replace, not extend, all_results
QueryPage_replaces(p) ==
  /\ run[p].pc = "fetch"
  /\ LET data == Response(run[p].payload)
         all == data.results
     IN IF data.has_more
        THEN Set(p, [run[p] EXCEPT !.all_results = all,
                                   !.payload.start_cursor = data.next_cursor])
        ELSE Set(p, [run[p] EXCEPT !.all_results = all, !.pages = all,
                                   !.pc = "header"])
  /\ hist' = [hist EXCEPT !.status[p] = 200, !.requests[p] = @ + 1]
  /\ UNCHANGED <<now, source, header, rows, cfg>>

\* one pass of the while loop of fetch_pages_from_notion_db, status < 400
QueryPage(p) ==
  /\ run[p].pc = "fetch"
  /\ LET data == Response(run[p].payload)
         all == run[p].all_results \o data.results
     IN /\ IF data.has_more
           THEN Set(p, [run[p] EXCEPT !.all_results = all,
                                      !.payload.start_cursor = data.next_cursor])
           ELSE Set(p, [run[p] EXCEPT !.all_results = all, !.pages = all,
                                      !.pc = "header"])
  /\ hist' = [hist EXCEPT !.status[p] = 200, !.requests[p] = @ + 1]
  /\ UNCHANGED <<now, source, header, rows, cfg>>

\* QueryPageError mutated: the loop is left with a break, and the pages
\* received so far are returned
QueryPageError_breaks(p) ==
  /\ run[p].pc = "fetch"
  /\ \E status \in {HttpErrorFloor, HttpErrorFloor + 100} :
       /\ Set(p, [run[p] EXCEPT !.pages = run[p].all_results, !.pc = "header"])
       /\ hist' = [hist EXCEPT !.status[p] = status, !.requests[p] = @ + 1]
  /\ UNCHANGED <<now, source, header, rows, cfg>>

\* the same pass when the response's status is 400 or more: RuntimeError
QueryPageError(p) ==
  /\ run[p].pc = "fetch"
  /\ \E status \in {HttpErrorFloor, HttpErrorFloor + 100} :
       /\ Set(p, Fail(p, "fetch", status))
       /\ hist' = [hist EXCEPT !.status[p] = status, !.requests[p] = @ + 1]
  /\ UNCHANGED <<now, source, header, rows, cfg>>

\* ensure_header_if_empty: `values and any(cell.strip() ...)`
HeaderPresent(h) == h \notin {"blank", "space"}

EnsureHeader(p) ==
  /\ run[p].pc = "header"
  /\ header' = IF HeaderPresent(header) THEN header ELSE "header"
  /\ Set(p, [run[p] EXCEPT !.pc = "transform"])
  /\ UNCHANGED <<now, source, rows, cfg, hist>>

\* the get, or the update, of ensure_header_if_empty raises
EnsureHeaderFails(p) ==
  /\ run[p].pc = "header"
  /\ \/ UNCHANGED header
     \/ ~HeaderPresent(header) /\ header' = "header"
  /\ Set(p, Fail(p, "header", 0))
  /\ UNCHANGED <<now, source, rows, cfg, hist>>

\* the row of one page: page id, the last_edited_time text as given, and the
\* texts of its properties
RowOf(page) == [id |-> page.id, edited |-> page.edited, props |-> page.props]

\* TrackMax mutated: the latest page seen wins, whatever its time
TrackMax_last(m, page) ==
  IF page.edited # Empty /\ Parses(page.edited)
  THEN parse_iso_datetime(page.edited)
  ELSE m

\* the max_last_edited tracking of one loop pass
TrackMax(m, page) ==
  IF page.edited # Empty /\ Parses(page.edited)
     /\ (m = NoneDt \/ parse_iso_datetime(page.edited) > m)
  THEN parse_iso_datetime(page.edited)
  ELSE m

RECURSIVE MaxLastEdited(_, _)
MaxLastEdited(m, ps) ==
  IF ps = <<>> THEN m ELSE MaxLastEdited(TrackMax(m, Head(ps)), Tail(ps))

\* lambda_handler, step 2: the for loop over pages
Transform(p) ==
  /\ run[p].pc = "transform"
  /\ Set(p, [run[p] EXCEPT
               !.rows_data = [j \in 1..Len(run[p].pages) |-> RowOf(run[p].pages[j])],
               !.max_last_edited = MaxLastEdited(NoneDt, run[p].pages),
               !.pc = "index"])
  /\ UNCHANGED <<now, source, header, rows, cfg, hist>>

\* read_existing_id_to_row_index mutated: ids[i] taken to be row 1 + i
read_existing_id_to_row_index_off(rs) ==
  [i \in Ids |->
     LET ks == {k \in 1..Len(rs) : rs[k].id = i}
     IN IF ks = {} THEN 0 ELSE 1 + (SetMax(ks) - 1)]

\* read_existing_id_to_row_index: ids[i] is row 2 + i; a later row of the same
\* id replaces an earlier one; rows without an id are skipped
read_existing_id_to_row_index(rs) ==
  [i \in Ids |->
     LET ks == {k \in 1..Len(rs) : rs[k].id = i}
     IN IF ks = {} THEN 0 ELSE 2 + (SetMax(ks) - 1)]

ReadIndex(p) ==
  /\ run[p].pc = "index"
  /\ Set(p, [run[p] EXCEPT !.id_to_row = read_existing_id_to_row_index(rows),
                           !.pc = "write"])
  /\ UNCHANGED <<now, source, header, rows, cfg, hist>>

ReadIndexFails(p) ==
  /\ run[p].pc = "index"
  /\ Set(p, Fail(p, "index", 0))
  /\ UNCHANGED <<now, source, header, rows, cfg, hist>>

\* NextAppendRow mutated: the first free row taken to be the one after as
\* many rows as there are indexed ids (right only for a sheet without gaps)
NextAppendRow_count(id_to_row) ==
  Cardinality({i \in Ids : id_to_row[i] # 0}) + 2

\* batch_upsert_rows: the first free row
NextAppendRow(id_to_row) ==
  IF \E i \in Ids : id_to_row[i] # 0
  THEN SetMax({id_to_row[i] : i \in Ids}) + 1
  ELSE 2

\* UpsertRow mutated: the new id is not entered in the in-memory index
UpsertRow_forgets(st, row) ==
  IF st.id_to_row[row.id] # 0
  THEN [st EXCEPT !.updates = Append(@, [row |-> st.id_to_row[row.id], values |-> row]),
                  !.updated = @ + 1]
  ELSE [st EXCEPT !.updates = Append(@, [row |-> st.next_append_row, values |-> row]),
                  !.next_append_row = @ + 1,
                  !.appended = @ + 1]

\* batch_upsert_rows: one pass of `for row in rows_data`
UpsertRow(st, row) ==
  IF st.id_to_row[row.id] # 0
  THEN [st EXCEPT !.updates = Append(@, [row |-> st.id_to_row[row.id], values |-> row]),
                  !.updated = @ + 1]
  ELSE [st EXCEPT !.updates = Append(@, [row |-> st.next_append_row, values |-> row]),
                  !.next_append_row = @ + 1,
                  !.id_to_row[row.id] = st.next_append_row,
                  !.appended = @ + 1]

RECURSIVE UpsertLoop(_, _)
UpsertLoop(st, rd) ==
  IF rd = <<>> THEN st ELSE UpsertLoop(UpsertRow(st, Head(rd)), Tail(rd))

Upsert(id_to_row, rows_data) ==
  UpsertLoop([id_to_row |-> id_to_row, next_append_row |-> NextAppendRow(id_to_row),
              updates |-> <<>>, appended |-> 0, updated |-> 0], rows_data)

\* BatchUpdate mutated: the index is read again in the step that writes
BatchUpdate_rereads(p) ==
  /\ run[p].pc = "write"
  /\ LET u == Upsert(read_existing_id_to_row_index(rows), run[p].rows_data)
         st == ApplyUpdates([header |-> header, rows |-> rows], u.updates)
     IN /\ header' = st.header
        /\ rows' = st.rows
        /\ Set(p, [run[p] EXCEPT !.updates = u.updates, !.appended = u.appended,
                                 !.updated = u.updated, !.pc = "checkpoint"])
  /\ UNCHANGED <<now, source, cfg, hist>>

\* batch_upsert_rows from the loop to its return: nothing is sent for an
\* empty batch
BatchUpdate(p) ==
  /\ run[p].pc = "write"
  /\ LET u == Upsert(run[p].id_to_row, run[p].rows_data)
         st == ApplyUpdates([header |-> header, rows |-> rows], u.updates)
     IN /\ header' = st.header
        /\ rows' = st.rows
        /\ Set(p, [run[p] EXCEPT !.updates = u.updates, !.appended = u.appended,
                                 !.updated = u.updated, !.pc = "checkpoint"])
  /\ UNCHANGED <<now, source, cfg, hist>>

\* BatchUpdateFails mutated: the checkpoint is stored although the write raised
\* (the store of the checkpoint moved into a finally clause)
BatchUpdateFails_finally(p) ==
  /\ run[p].pc = "write"
  /\ LET u == Upsert(run[p].id_to_row, run[p].rows_data)
     IN /\ u.updates # <<>>
        /\ \E n \in 0..Len(u.updates) :
             LET st == ApplyUpdates([header |-> header, rows |-> rows],
                                    SubSeq(u.updates, 1, n))
             IN header' = st.header /\ rows' = st.rows
        /\ Set(p, Fail(p, "write", 0))
  /\ cfg' = IF run[p].max_last_edited # NoneDt
            THEN to_notion_iso(run[p].max_last_edited)
            ELSE to_notion_iso(now * TicksPerSec)
  /\ UNCHANGED <<now, source, hist>>

\* values.batchUpdate raises: the ranges before some point were applied
BatchUpdateFails(p) ==
  /\ run[p].pc = "write"
  /\ LET u == Upsert(run[p].id_to_row, run[p].rows_data)
     IN /\ u.updates # <<>>
        /\ \E n \in 0..Len(u.updates) :
             LET st == ApplyUpdates([header |-> header, rows |-> rows],
                                    SubSeq(u.updates, 1, n))
             IN header' = st.header /\ rows' = st.rows
        /\ Set(p, Fail(p, "write", 0))
  /\ UNCHANGED <<now, source, cfg, hist>>

\* lambda_handler, step 4: the value stored as the new checkpoint
NewLastSync(max_last_edited) ==
  IF max_last_edited # NoneDt
  THEN to_notion_iso(max_last_edited)
  ELSE to_notion_iso(now * TicksPerSec)

\* the summary lambda_handler returns: delta_pages, updated, appended, last_sync
Return(p) ==
  [IdleRun EXCEPT !.pc = "done", !.last_sync_iso = run[p].last_sync_iso,
                  !.delta_pages = Len(run[p].pages),
                  !.appended = run[p].appended, !.updated = run[p].updated,
                  !.new_last_sync = NewLastSync(run[p].max_last_edited)]

WriteLastSync(p) ==
  /\ run[p].pc = "checkpoint"
  /\ cfg' = NewLastSync(run[p].max_last_edited)
  /\ Set(p, Return(p))
  /\ UNCHANGED <<now, source, header, rows, hist>>

\* write_last_sync_time raises, the cell written or not
WriteLastSyncFails(p) ==
  /\ run[p].pc = "checkpoint"
  /\ \/ UNCHANGED cfg
     \/ cfg' = NewLastSync(run[p].max_last_edited)
  /\ Set(p, Fail(p, "checkpoint", 0))
  /\ UNCHANGED <<now, source, header, rows, hist>>

\* ------------------------------------------------------ the environment
Tick ==
  /\ now < MaxNow
  /\ now' = now + 1
  /\ UNCHANGED <<source, header, rows, cfg, run, hist>>

\* a run whose fetch has begun and that has not raised
Watched(p) == run[p].pc \notin {"idle", "failed"}

\* a page is created or edited: Notion stamps it with the current time
EditTexts == {Iso(now * TicksPerSec + f, 0) : f \in 0..(TicksPerSec - 1)}

Edit(i) ==
  /\ hist.edits < MaxEdits
  /\ \E e \in EditTexts, v \in 1..NumProps : source' = [source EXCEPT ![i] = Page(i, e, v)]
  /\ hist' = [hist EXCEPT !.edits = @ + 1, !.streak = 0,
                          !.fresh = [p \in Procs |-> IF Watched(p) THEN @[p] \cup {i} ELSE @[p]]]
  /\ UNCHANGED <<now, header, rows, cfg, run>>

Delete(i) ==
  /\ hist.edits < MaxEdits
  /\ source[i] # NoPage
  /\ source' = [source EXCEPT ![i] = NoPage]
  /\ hist' = [hist EXCEPT !.edits = @ + 1, !.streak = 0,
                          !.fresh = [p \in Procs |-> @[p] \ {i}]]
  /\ UNCHANGED <<now, header, rows, cfg, run>>

\* ------------------------------------------------------ specifications
\* fresh[p]: the ids edited since run p read its checkpoint
NoHist == [start |-> [p \in Procs |-> Store], fresh |-> [p \in Procs |-> {}], status |-> [p \in Procs |-> 0], requests |-> [p \in Procs |-> 0],
           streak |-> 0, edits |-> 0]

Start(p) ==
  \/ ReadLastSync(p)
  \/ ReadLastSyncFails(p)

Work(p) ==
  \/ QueryPage(p)
  \/ QueryPageError(p)
  \/ EnsureHeader(p)
  \/ EnsureHeaderFails(p)
  \/ Transform(p)
  \/ ReadIndex(p)
  \/ ReadIndexFails(p)
  \/ BatchUpdate(p)
  \/ BatchUpdateFails(p)
  \/ WriteLastSync(p)
  \/ WriteLastSyncFails(p)

Step(p) == Start(p) \/ Work(p)

\* Runs one after the other, on a database that changes as they go.
Init ==
  /\ now = 0
  /\ source = [i \in Ids |-> NoPage]
  /\ header \in {"blank", "space", "other"}
  /\ rows = <<>>
  /\ cfg = Empty
  /\ run = [p \in Procs |-> IdleRun]
  /\ hist = NoHist

Next ==
  \/ Step("r1")
  \/ Tick
  \/ \E i \in 1..NumLive : Edit(i)
  \/ \E i \in 1..NumLive : Delete(i)

Spec == Init /\ [][Next]_vars

\* One run on a database and a store, both drawn.
\* Boundary: the instant a checkpoint written at MaxNow looks back to.
Boundary == (MaxNow - SYNC_LOOKBACK_SECONDS) * TicksPerSec

DrawnEdited ==
  {Empty, Bad(0), Iso(Boundary, 0), Iso(Boundary + 1, 0), Iso(Boundary + 3 * TicksPerSec, 2)}

DrawnSources ==
  {src \in [Ids -> {NoPage} \cup {Page(0, e, 1) : e \in DrawnEdited}] : TRUE}

WithIds(src) == [i \in Ids |-> IF src[i] = NoPage THEN NoPage ELSE [src[i] EXCEPT !.id = i]]

SheetRow(i, v) == [id |-> i, edited |-> Empty, props |-> v]

InitRun ==
  /\ now = MaxNow
  /\ \E src \in DrawnSources : source = WithIds(src)
  /\ header \in {"blank", "space", "other"}
  /\ rows \in {<<>>} \cup {<<SheetRow(i, 0)>> : i \in Ids}
  /\ cfg \in {Empty, Bad(0), Iso(MaxNow * TicksPerSec, 0)}
  /\ run = [p \in Procs |-> IdleRun]
  /\ hist = NoHist

NextRun ==
  \/ run["r1"].pc = "idle" /\ Start("r1")
  \/ Work("r1")

SpecRun == InitRun /\ [][NextRun]_vars

\* ReadLastSync alone, on every checkpoint text drawn.
CheckpointTexts ==
  {Empty, Bad(0), Bad(1)}
    \cup {Iso(l, o) : l \in 0..(MaxNow * TicksPerSec + 1), o \in (0 - MaxOffset)..MaxOffset}

InitFilter ==
  /\ now = MaxNow
  /\ source = [i \in Ids |-> NoPage]
  /\ header = "header"
  /\ rows = <<>>
  /\ cfg \in CheckpointTexts
  /\ run = [p \in Procs |-> IdleRun]
  /\ hist = NoHist

NextFilter == ReadLastSync("r1") \/ ReadLastSyncFails("r1")

SpecFilter == InitFilter /\ [][NextFilter]_vars

\* batch_upsert_rows alone: a sheet and a batch, drawn; the batch's rows carry
\* their place in the batch as content, so that two rows of one id differ.
RECURSIVE SeqsUpTo(_, _)
SeqsUpTo(S, n) ==
  IF n = 0 THEN {<<>>}
  ELSE SeqsUpTo(S, n - 1) \cup {Append(q, x) : q \in {r \in SeqsUpTo(S, n - 1) : Len(r) = n - 1}, x \in S}

DrawnSheets == SeqsUpTo({NoRow} \cup {SheetRow(i, 0) : i \in Ids}, MaxInitRows)

DrawnBatches ==
  {[j \in 1..Len(q) |-> SheetRow(q[j], j)] : q \in SeqsUpTo(Ids, MaxBatch)}

InitUpsert ==
  /\ now = 0
  /\ source = [i \in Ids |-> NoPage]
  /\ header = "header"
  /\ rows \in DrawnSheets
  /\ cfg = Empty
  /\ \E rd \in DrawnBatches :
       run = [p \in Procs |-> IF p = "r1"
                              THEN [IdleRun EXCEPT !.pc = "index", !.rows_data = rd,
                                                   !.last_sync_iso = Empty]
                              ELSE IdleRun]
  /\ hist = NoHist

NextUpsert == ReadIndex("r1") \/ BatchUpdate("r1")

SpecUpsert == InitUpsert /\ [][NextUpsert]_vars

\* Two invocations that overlap, on a database that changes.
NextConc ==
  \/ \E p \in Procs : run[p].pc = "idle" /\ Start(p)
  \/ \E p \in Procs : Work(p)
  \/ \E i \in 1..NumLive : Edit(i)
  \/ \E i \in 1..NumLive : Delete(i)

InitConc ==
  /\ now = 0
  /\ \E live \in SUBSET (1..NumLive) :
       source = [i \in Ids |-> IF i \in live THEN Page(i, Iso(0, 0), 1) ELSE NoPage]
  /\ header = "blank"
  /\ rows = <<>>
  /\ cfg = Empty
  /\ run = [p \in Procs |-> IdleRun]
  /\ hist = NoHist

SpecConc == InitConc /\ [][NextConc]_vars

\* ======================================================== the properties
\* what batch_upsert_rows was given and what it sent, once it has returned
Ups == run["r1"].updates
Batch == run["r1"].rows_data
Index == run["r1"].id_to_row
Before == hist.start["r1"].rows
UpsertDone == run["r1"].pc = "checkpoint"

IndexBase == IF \A i \in Ids : Index[i] = 0 THEN 2 ELSE SetMax({Index[i] : i \in Ids}) + 1

\* the new ids of the batch that occur before the first row of place j's id
FirstOf(j) == SetMin({k \in 1..Len(Batch) : Batch[k].id = Batch[j].id})
NewIdsBefore(j) == {Batch[k].id : k \in 1..(FirstOf(j) - 1)} \ {i \in Ids : Index[i] # 0}

Targets == {Ups[j].row : j \in 1..Len(Ups)}

\* C3: batch_upsert_rows writes a row of an indexed id at its indexed row and
\* a row of a new id at the next unused row, counted from max indexed row + 1
\* (2 for an empty index) in input order; rows that are no target, among them
\* those of indexed ids absent from the batch, keep their content.
C3_RowAssignment ==
  UpsertDone =>
    /\ Len(Ups) = Len(Batch)
    /\ \A j \in 1..Len(Batch) :
         /\ Ups[j].values = Batch[j]
         /\ Index[Batch[j].id] # 0 => Ups[j].row = Index[Batch[j].id]
         /\ Index[Batch[j].id] = 0 => Ups[j].row = IndexBase + Cardinality(NewIdsBefore(j))
    /\ \A k \in 1..Len(Before) : (k + 1) \notin Targets => rows[k] = Before[k]
    /\ (Before = <<>> /\ \A j, k \in 1..Len(Batch) : j # k => Batch[j].id # Batch[k].id)
         => Targets = 2..(Len(Batch) + 1)

\* index {A:2, B:3}, batch [C, A]: C at row 4, A at row 2, B as it was
C3_Witness ==
  /\ UpsertDone
  /\ Index = [i \in Ids |-> IF i = 1 THEN 2 ELSE IF i = 2 THEN 3 ELSE 0]
  /\ Len(Batch) = 2 /\ Batch[1].id = 3 /\ Batch[2].id = 1
  /\ Ups[1].row = 4 /\ Ups[2].row = 2
  /\ rows[2] = Before[2] /\ rows[3] = Batch[1] /\ rows[1] = Batch[2]

\* C4: an id that occurs more than once in the batch gets one row; every
\* occurrence is sent to it, in input order, so the sheet holds the last
\* one's content; the rows taken by new ids are consecutive from the first
\* free row, one for each distinct new id.
C4_DuplicateIds ==
  UpsertDone =>
    /\ \A j, k \in 1..Len(Batch) : Batch[j].id = Batch[k].id => Ups[j].row = Ups[k].row
    /\ \A j, k \in 1..Len(Batch) : Batch[j].id # Batch[k].id => Ups[j].row # Ups[k].row
    /\ \A j \in 1..Len(Batch) :
         LET last == SetMax({k \in 1..Len(Batch) : Batch[k].id = Batch[j].id})
         IN rows[Ups[j].row - 1] = Batch[last]
    /\ LET new == {Batch[j].id : j \in 1..Len(Batch)} \ {i \in Ids : Index[i] # 0}
       IN /\ {Ups[j].row : j \in {k \in 1..Len(Batch) : Batch[k].id \in new}}
               = IndexBase..(IndexBase + Cardinality(new) - 1)
          /\ run["r1"].appended = Cardinality(new)
          /\ run["r1"].updated = Len(Batch) - Cardinality(new)

\* a new id twice, with another new id between: one row for it, the later
\* content kept
C4_Witness ==
  /\ UpsertDone
  /\ Len(Batch) = 3 /\ Batch[1].id = Batch[3].id /\ Batch[2].id # Batch[1].id
  /\ Index[Batch[1].id] = 0 /\ Index[Batch[2].id] = 0
  /\ Ups[1].row = Ups[3].row /\ Ups[2].row = Ups[1].row + 1
  /\ rows[Ups[1].row - 1] = Batch[3]
  /\ run["r1"].appended = 2

AllPages == LET ids == SortedSeq({i \in Ids : source[i] # NoPage})
            IN [j \in 1..Len(ids) |-> source[ids[j]]]

BeforeCheckpoint == {"fetch", "header", "index", "write"}

\* C2: the checkpoint cell changes only in the step that follows the return
\* of batch_upsert_rows, and a run that raised in its fetch, its header check,
\* its index read or its batched write leaves the cell as the run found it.
C2_NoAdvanceOnFailure ==
  [][/\ cfg' # cfg => \E p \in Procs : run[p].pc = "checkpoint"
     /\ \A p \in Procs :
          (run'[p].pc = "failed" /\ run'[p].stage \in BeforeCheckpoint)
            => cfg' = hist'.start[p].cfg]_vars

\* the batched write raised with part of it applied; the checkpoint is the old one
C2_Witness ==
  /\ run["r1"].pc = "failed" /\ run["r1"].stage = "write"
  /\ rows # hist.start["r1"].rows
  /\ cfg = hist.start["r1"].cfg /\ cfg.kind = "iso"

\* the instants of the pages whose last_edited_time parses
Instants(ps) == {ps[j].edited.loc - ps[j].edited.off * TicksPerSec :
                   j \in {k \in 1..Len(ps) : ps[k].edited.kind = "iso"}}
WholeSecond(t) == Iso(t - (t % TicksPerSec), 0)

C8_FullSyncPagination ==
  \A p \in Procs :
    LET r == run[p] IN
    /\ (r.pc = "fetch" /\ r.last_sync_iso = Empty) =>
         /\ r.payload.filter = NoText
         /\ Len(r.all_results) <= Len(AllPages)
         /\ r.all_results = SubSeq(AllPages, 1, Len(r.all_results))
         /\ r.payload.start_cursor =
              IF r.all_results = <<>> THEN 0 ELSE r.all_results[Len(r.all_results)].id
    /\ (r.pc \in {"header", "transform", "index", "write", "checkpoint"}
          /\ r.last_sync_iso = Empty) => r.pages = AllPages
    /\ r.pc \in {"index", "write", "checkpoint"} =>
         /\ Len(r.rows_data) = Len(r.pages)
         /\ \A j \in 1..Len(r.pages) :
              /\ r.rows_data[j].id = r.pages[j].id
              /\ r.rows_data[j].edited = r.pages[j].edited
              /\ r.rows_data[j].props = r.pages[j].props
    /\ r.pc = "checkpoint" =>
         /\ Len(r.updates) = Len(r.pages)
         /\ \A j \in 1..Len(r.pages) : r.updates[j].values.id = r.pages[j].id

\* more pages than one response holds: two requests, all rows, in order
C8_Witness ==
  /\ run["r1"].pc = "checkpoint" /\ run["r1"].last_sync_iso = Empty
  /\ hist.requests["r1"] = 2
  /\ Len(run["r1"].rows_data) = MaxPage + 1
  /\ \A j \in 1..(MaxPage + 1) : run["r1"].rows_data[j].id = j

\* C9: a response of status 400 or more ends the fetch with an error that
\* carries the status; no page is returned, and the store is as the run found
\* it: no header, row or checkpoint write.
C9_FetchAbort ==
  \A p \in Procs :
    hist.status[p] >= 400 =>
      /\ run[p].pc = "failed" /\ run[p].stage = "fetch"
      /\ run[p].error = hist.status[p]
      /\ run[p].pages = <<>> /\ run[p].rows_data = <<>>
      /\ Store = hist.start[p]

\* the second request of a fetch is refused; row 1 is still blank
C9_Witness ==
  /\ hist.status["r1"] >= 400 /\ hist.requests["r1"] = 2
  /\ run["r1"].pc = "failed" /\ run["r1"].error = hist.status["r1"]
  /\ header = "blank" /\ cfg = hist.start["r1"].cfg

\* ------------------------------------ runs one after the other (Spec)
\* C1: when two runs succeed one after the other and the database has not
\* changed since the first of them began, the second appends no row and
\* leaves the data rows as the first left them.
C1_Idempotence ==
  (run["r1"].pc = "done" /\ hist.streak = 2) =>
     /\ run["r1"].appended = 0
     /\ rows = hist.start["r1"].rows

\* C5: row 1 changes only in ensure_header_if_empty, only from a blank row
\* (no cell, or cells of white space) and only to the header; a row 1 that
\* holds text is never changed; no range batch_upsert_rows sends is row 1.
C5_HeaderProtection ==
  [][/\ header \in {"header", "other"} => header' = header
     /\ header' # header =>
          /\ \E p \in Procs : run[p].pc = "header" /\ run'[p].pc \in {"transform", "failed"}
          /\ header \in {"blank", "space"}
          /\ header' = "header"
     /\ \A p \in Procs : \A j \in 1..Len(run'[p].updates) : run'[p].updates[j].row >= 2]_vars

\* a later run finds the header an earlier run wrote, updates a row, and
\* leaves row 1 alone
C5_Witness ==
  /\ run["r1"].pc = "done" /\ run["r1"].updated >= 1
  /\ hist.start["r1"].header = "header"
  /\ header = "header"

\* ------------------------------------------ overlapping runs (SpecConc)
BatchIds(p) == {run[p].rows_data[j].id : j \in 1..Len(run[p].rows_data)}
NewIds(p) == {i \in BatchIds(p) : run[p].id_to_row[i] = 0}
FirstNew(p) ==
  run[p].rows_data[SetMin({j \in 1..Len(run[p].rows_data) :
                             run[p].rows_data[j].id \in NewIds(p)})].id
RowsOf(S) == {k \in 1..Len(rows) : rows[k].id \in S}

\* C10: two runs that have read the same index and then both completed their
\* batched write, each with a new id the other's batch lacks, have written
\* the first of their new ids to the same row: the sheet holds one of the two
\* ids, on that one row, and the other not at all.
C10_LostAppend ==
  \A p, q \in Procs :
    (/\ p # q
     /\ run[p].pc = "checkpoint" /\ run[q].pc = "checkpoint"
     /\ run[p].id_to_row = run[q].id_to_row
     /\ NewIds(p) # {} /\ NewIds(q) # {}
     /\ FirstNew(p) \notin BatchIds(q) /\ FirstNew(q) \notin BatchIds(p))
    => LET I == run[p].id_to_row
           n == IF \A i \in Ids : I[i] = 0 THEN 2 ELSE SetMax({I[i] : i \in Ids}) + 1
       IN /\ RowsOf({FirstNew(p), FirstNew(q)}) = {n - 1}
          /\ \E j \in 1..Len(run[p].updates) :
               run[p].updates[j].row = n /\ run[p].updates[j].values.id = FirstNew(p)
          /\ \E j \in 1..Len(run[q].updates) :
               run[q].updates[j].row = n /\ run[q].updates[j].values.id = FirstNew(q)

\* both runs read an empty index, one sent page 1 and the other page 2 to
\* row 2, and the sheet holds page 2 alone
C10_Witness ==
  /\ run["r1"].pc = "checkpoint" /\ run["r2"].pc = "checkpoint"
  /\ run["r1"].appended = 1 /\ run["r2"].appended = 1
  /\ run["r1"].updates[1].row = 2 /\ run["r1"].updates[1].values.id = 1
  /\ run["r2"].updates[1].row = 2 /\ run["r2"].updates[1].values.id = 2
  /\ Len(rows) = 1 /\ rows[1].id = 2

C12_NoMissedEdits ==
  \A p \in Procs :
    run[p].pc = "done" =>
      \A i \in Ids :
        (source[i] # NoPage /\ i \notin hist.fresh[p])
          => \E k \in 1..Len(rows) : rows[k] = RowOf(source[i])

====
